---- MODULE Spec2Model ----
(***************************************************************************)
(* A model of the Java code reviewer (java_code_reviewer.py): the line     *)
(* loader, the seven rule checks, the scorer, the summarizer, the result   *)
(* assembly of review_file and the batch loop of main.                     *)
(*                                                                         *)
(* Text is modelled as TLA+ strings, on which TLC evaluates Len, SubSeq    *)
(* and \o character by character, so that strip, startswith, `in`, count   *)
(* and the regular expressions are computed as Python computes them.       *)
(* Scores are kept in tenths (93.8 is 938).  Messages are ASCII tags of    *)
(* the source's message texts; the suggestion text, which the message      *)
(* fixes, is left out of a finding.                                        *)
(***************************************************************************)
EXTENDS Integers, Sequences, FiniteSets, TLC

VARIABLES
    fs,           \* the file system: fs[p] is the file at path p
    heap,         \* the Python list objects holding findings, by identity
    self_issues,  \* JavaCodeReviewer.issues: a reference into heap
    current_file, \* JavaCodeReviewer.current_file
    next_file,    \* main: the position of the for loop over java_files
    results,      \* main: the results list
    pc,           \* per thread: the position inside review_file
    file_path,    \* per thread: review_file's parameter
    lines,        \* per thread: review_file's local `lines`
    total_lines,  \* the scorer's input, kept for the scorer specification
    score,        \* the scorer's last output, in tenths
    summary,      \* the summarizer's last output
    ci            \* the CIIntegration object and its last call

vars == <<fs, heap, self_issues, current_file, next_file, results, pc,
          file_path, lines, total_lines, score, summary, ci>>

-----------------------------------------------------------------------------
(* Bounds of the model. *)

MaxFiles == 2
MaxIssues == 5
MaxTotalLines == 40

-----------------------------------------------------------------------------
(* Python string operations. *)

CharAt(s, i) == SubSeq(s, i, i)

\* str.strip() and \s: the whitespace a line can hold once split on "\n".
Whitespace == {" ", "\t", "\r"}

Lower == {"a", "b", "c", "d", "e", "f", "g", "h", "i", "j", "k", "l", "m",
          "n", "o", "p", "q", "r", "s", "t", "u", "v", "w", "x", "y", "z"}

Upper == {"A", "B", "C", "D", "E", "F", "G", "H", "I", "J", "K", "L", "M",
          "N", "O", "P", "Q", "R", "S", "T", "U", "V", "W", "X", "Y", "Z"}

Digit == {"0", "1", "2", "3", "4", "5", "6", "7", "8", "9"}

\* [a-zA-Z0-9]
AlNum == Lower \cup Upper \cup Digit

\* \w, the characters between which \b finds no boundary
WordChar == AlNum \cup {"_"}

\* p in s
In(p, s) == \E i \in 1..(Len(s) - Len(p) + 1) : SubSeq(s, i, i + Len(p) - 1) = p

\* s.startswith(p)
startswith(s, p) == Len(s) >= Len(p) /\ SubSeq(s, 1, Len(p)) = p

\* s.count(c) for a one-character c
count(s, c) == Cardinality({i \in 1..Len(s) : CharAt(s, i) = c})

\* s.strip()
strip(s) ==
    LET keep == {i \in 1..Len(s) : CharAt(s, i) \notin Whitespace}
    IN  IF keep = {} THEN ""
        ELSE LET a == CHOOSE i \in keep : \A j \in keep : i <= j
                 b == CHOOSE i \in keep : \A j \in keep : i >= j
             IN  SubSeq(s, a, b)

\* content.split('\n'): never empty, "" splits into one empty line
RECURSIVE split(_)
split(content) ==
    LET nl == {i \in 1..Len(content) : CharAt(content, i) = "\n"}
    IN  IF nl = {} THEN << content >>
        ELSE LET k == CHOOSE i \in nl : \A j \in nl : i <= j
             IN  << SubSeq(content, 1, k - 1) >>
                     \o split(SubSeq(content, k + 1, Len(content)))

\* The first position from i on that holds a character outside class, or
\* Len(s) + 1: where a greedy class* starting at i stops.
SkipWhile(s, i, class) ==
    LET stop == {k \in i..Len(s) : CharAt(s, k) \notin class}
    IN  IF stop = {} THEN Len(s) + 1
        ELSE CHOOSE k \in stop : \A j \in stop : k <= j

Min(a, b) == IF a <= b THEN a ELSE b

Max(a, b) == IF a >= b THEN a ELSE b

-----------------------------------------------------------------------------
(* The data model. *)

\* A variant of CodeIssue that numbers the lines from 0.
CodeIssue_zero_based(line_number, severity, category, message) ==
    [line_number |-> line_number - 1, severity |-> severity,
     category |-> category, message |-> message]

CodeIssue(line_number, severity, category, message) ==
    [line_number |-> line_number, severity |-> severity,
     category |-> category, message |-> message]

ReviewResult(path, n, issues, sc, sentence) ==
    [file_path |-> path, total_lines |-> n, issues |-> issues,
     score |-> sc, summary |-> sentence]

\* The findings of a rule check, per_line[i] being those its loop
\* `for i, line in enumerate(lines, 1)` appends at line i.
RECURSIVE InLineOrder(_)
InLineOrder(per_line) ==
    IF per_line = <<>> THEN <<>>
    ELSE Head(per_line) \o InLineOrder(Tail(per_line))

-----------------------------------------------------------------------------
(* The rule checks.  At(ls, j) is Python's lines[j], counted from 0, while *)
(* the loop variable i of every rule counts lines from 1.                  *)

At(ls, j) == ls[j + 1]

\* any(keyword in s for keyword in keywords)
AnyIn(keywords, s) == \E keyword \in keywords : In(keyword, s)

\* range(max(0, line_num - 10), line_num): the indices _needs_indentation
\* reads
_needs_indentation_range(line_num) == Max(0, line_num - 10)..(line_num - 1)

_needs_indentation(line, line_num, ls) ==
    \E i \in _needs_indentation_range(line_num) :
        LET prev_line == strip(At(ls, i))
        IN  /\ In("{", prev_line)
            /\ ~startswith(prev_line, "//")
            /\ ~startswith(prev_line, "*")

IsTopLevelDeclaration(line) ==
    \/ startswith(line, "public class") \/ startswith(line, "class ")
    \/ startswith(line, "public interface") \/ startswith(line, "interface ")
    \/ startswith(line, "public enum") \/ startswith(line, "enum ")
    \/ startswith(line, "package ") \/ startswith(line, "import ")

IsBlockLine(line) ==
    \/ startswith(line, "{") \/ startswith(line, "}")
    \/ startswith(line, "if") \/ startswith(line, "for")
    \/ startswith(line, "while") \/ startswith(line, "try")
    \/ startswith(line, "catch") \/ startswith(line, "finally")
    \/ startswith(line, "return") \/ startswith(line, "throw")

_check_code_style_line(ls, i) ==
    LET original_line == ls[i]
        line == strip(original_line)
        indented == startswith(original_line, " ") \/ startswith(original_line, "\t")
    IN  IF \/ line = "" \/ startswith(line, "//")
           \/ startswith(line, "*") \/ startswith(line, "/*")
        THEN <<>>
        ELSE IF IsTopLevelDeclaration(line)
        THEN IF indented
             THEN << CodeIssue(i, "warning", "style", "top_level_indented") >>
             ELSE <<>>
        ELSE IF IsBlockLine(line)
        THEN IF /\ ~indented
                /\ ~startswith(line, "public") /\ ~startswith(line, "private")
                /\ ~startswith(line, "protected") /\ ~startswith(line, "static")
                /\ _needs_indentation(line, i, ls)
             THEN << CodeIssue(i, "warning", "style", "missing_indentation") >>
             ELSE <<>>
        ELSE <<>>

_check_code_style(ls) == InLineOrder([i \in 1..Len(ls) |-> _check_code_style_line(ls, i)])

\* re.match(r'^[a-z][a-zA-Z0-9]*\s*\(', line)
MatchesMethodShape(line) ==
    /\ Len(line) >= 1
    /\ CharAt(line, 1) \in Lower
    /\ LET k == SkipWhile(line, SkipWhile(line, 2, AlNum), Whitespace)
       IN  k <= Len(line) /\ CharAt(line, k) = "("

\* re.match(r'^([a-z][a-zA-Z0-9]*)', line).group(1), for a line whose first
\* character is a lower-case letter
MethodName(line) == SubSeq(line, 1, SkipWhile(line, 2, AlNum) - 1)

\* A variant of IsCamelCase that takes letters only.
IsCamelCase_letters_only(name) ==
    /\ Len(name) >= 1
    /\ CharAt(name, 1) \in Lower
    /\ \A k \in 2..Len(name) : CharAt(name, k) \in Lower \cup Upper

\* re.match(r'^[a-z][a-zA-Z0-9]*$', name)
IsCamelCase(name) ==
    /\ Len(name) >= 1
    /\ CharAt(name, 1) \in Lower
    /\ \A k \in 2..Len(name) : CharAt(name, k) \in AlNum

MaxLineLength == 120

_check_code_style_additional_line(ls, i) ==
    LET line == strip(ls[i])
    IN  (IF Len(line) > MaxLineLength
         THEN << CodeIssue(i, "info", "style", "line_too_long") >>
         ELSE <<>>)
        \o
        (IF MatchesMethodShape(line) /\ ~IsCamelCase(MethodName(line))
         THEN << CodeIssue(i, "warning", "style", "method_name_not_camel_case") >>
         ELSE <<>>)

_check_code_style_additional(ls) ==
    InLineOrder([i \in 1..Len(ls) |-> _check_code_style_additional_line(ls, i)])

\* re.match(r'^\s*private\s+static\s+', line)
MatchesPrivateStatic(line) ==
    LET a == SkipWhile(line, 1, Whitespace)
        b == a + 7
        c == SkipWhile(line, b, Whitespace)
        d == c + 6
    IN  /\ Len(line) >= b /\ SubSeq(line, a, b - 1) = "private"
        /\ c > b
        /\ Len(line) >= d /\ SubSeq(line, c, d - 1) = "static"
        /\ CharAt(line, d) \in Whitespace

ThreadLocalWindow == 20

\* A variant of class_has_threadlocal that looks only at the lines after the
\* declaration.
class_has_threadlocal_below(ls, i) ==
    \E j \in i..(Min(Len(ls), i + ThreadLocalWindow) - 1) :
        In("ThreadLocal<SimpleDateFormat>", At(ls, j))

\* range(max(0, i-20), min(len(lines), i+20))
class_has_threadlocal_range(ls, i) ==
    Max(0, i - ThreadLocalWindow)..(Min(Len(ls), i + ThreadLocalWindow) - 1)

\* The inner loop of _check_thread_safety: class_has_threadlocal
class_has_threadlocal(ls, i) ==
    \E j \in class_has_threadlocal_range(ls, i) :
        In("ThreadLocal<SimpleDateFormat>", At(ls, j))

_check_thread_safety_line(ls, i) ==
    LET line == strip(ls[i])
    IN  (IF In("ThreadLocal", line) /\ In("ThreadLocal<SimpleDateFormat>", line)
         THEN << CodeIssue(i, "info", "thread_safety", "threadlocal_wraps_formatter") >>
         ELSE <<>>)
        \o
        (IF In("synchronized", line) /\ In("synchronized (sdf)", line)
         THEN << CodeIssue(i, "info", "thread_safety", "synchronized_used") >>
         ELSE <<>>)
        \o
        (IF /\ MatchesPrivateStatic(line)
            /\ In("SimpleDateFormat", line) /\ ~In("ThreadLocal", line)
            /\ ~class_has_threadlocal(ls, i)
         THEN << CodeIssue(i, "error", "thread_safety", "static_formatter_not_thread_safe") >>
         ELSE <<>>)

_check_thread_safety(ls) == InLineOrder([i \in 1..Len(ls) |-> _check_thread_safety_line(ls, i)])

LogWindow == 10

\* A variant of has_log_in_catch_range that always spans LogWindow lines.
has_log_in_catch_range_unclamped(ls, i) == i..(i + LogWindow - 1)

\* range(i, min(i + 10, len(lines)))
has_log_in_catch_range(ls, i) == i..(Min(i + LogWindow, Len(ls)) - 1)

\* The inner loop of _check_logging: has_log_in_catch
has_log_in_catch(ls, i) ==
    \E j \in has_log_in_catch_range(ls, i) :
        \/ In("log.", At(ls, j)) \/ In("Logger", At(ls, j))
        \/ In("System.out", At(ls, j))

_check_logging_line(ls, i) ==
    LET line == strip(ls[i])
    IN  (IF In("System.out.println", line)
         THEN << CodeIssue(i, "warning", "logging", "system_out_println") >>
         ELSE <<>>)
        \o
        (IF In("System.err.println", line)
         THEN << CodeIssue(i, "warning", "logging", "system_err_println") >>
         ELSE <<>>)
        \o
        (IF In("catch", line) /\ In("Exception", line) /\ ~has_log_in_catch(ls, i)
         THEN << CodeIssue(i, "warning", "logging", "missing_log_in_catch") >>
         ELSE <<>>)

_check_logging(ls) == InLineOrder([i \in 1..Len(ls) |-> _check_logging_line(ls, i)])

\* range(i, len(lines))
catch_block_range(ls, i) == i..(Len(ls) - 1)

\* The brace scan of _check_exception_handling, `for j in range(i, len(lines))`,
\* from position j on: the catch_content it ends with.
RECURSIVE ScanCatchBlock(_, _, _, _, _, _)
ScanCatchBlock(ls, i, j, brace_count, catch_content, in_catch_block) ==
    IF j \notin catch_block_range(ls, i) THEN catch_content
    ELSE LET current_line == strip(At(ls, j))
             opens == In("{", current_line)
             count1 == IF opens THEN brace_count + count(current_line, "{")
                       ELSE brace_count
             in_block == in_catch_block \/ opens
             count2 == IF In("}", current_line)
                       THEN count1 - count(current_line, "}")
                       ELSE count1
             content == IF in_block /\ count2 > 0
                        THEN Append(catch_content, current_line)
                        ELSE catch_content
         IN  IF in_block /\ count2 <= 0 /\ j > i THEN content
             ELSE ScanCatchBlock(ls, i, j + 1, count2, content, in_block)

catch_content_of(ls, i) == ScanCatchBlock(ls, i, i, 0, <<>>, FALSE)

non_comment_content(catch_content) ==
    SelectSeq(catch_content,
              LAMBDA l : /\ l # "" /\ ~startswith(l, "//")
                         /\ ~startswith(l, "*") /\ ~startswith(l, "/*"))

_check_exception_handling_line(ls, i) ==
    LET line == strip(ls[i])
    IN  (IF /\ In("catch", line) /\ In("Exception", line)
            /\ non_comment_content(catch_content_of(ls, i)) = <<>>
         THEN << CodeIssue(i, "error", "exception", "empty_catch_block") >>
         ELSE <<>>)
        \o
        (IF In("throws", line) /\ In("Exception", line) /\ In("throws Exception", line)
         THEN << CodeIssue(i, "warning", "exception", "throws_generic_exception") >>
         ELSE <<>>)
        \o
        (IF /\ In("null", line) /\ (In("==", line) \/ In("!=", line))
            /\ (In("null ==", line) \/ In("null !=", line))
         THEN << CodeIssue(i, "info", "null_safety", "null_literal_comparison") >>
         ELSE <<>>)
        \o
        (IF /\ In(".", line) /\ ~startswith(line, "//")
            /\ ~AnyIn({"import", "package", "class", "interface"}, line)
            /\ count(line, ".") > 2 /\ ~In("null", line) /\ ~In("if", line)
         THEN << CodeIssue(i, "warning", "null_safety", "chained_call_null_risk") >>
         ELSE <<>>)

_check_exception_handling(ls) == InLineOrder([i \in 1..Len(ls) |-> _check_exception_handling_line(ls, i)])

_check_performance_line(ls, i) ==
    LET line == strip(ls[i])
    IN  (IF In("+", line) /\ In("String", line) /\ count(line, "+") > 3
         THEN << CodeIssue(i, "warning", "performance", "string_concatenation") >>
         ELSE <<>>)
        \o
        (IF In("for", line) /\ (In("String", line) \/ In("+", line))
         THEN << CodeIssue(i, "info", "performance", "string_operation_in_loop") >>
         ELSE <<>>)

_check_performance(ls) == InLineOrder([i \in 1..Len(ls) |-> _check_performance_line(ls, i)])

\* re.search(r'\b\d{2,}\b', line)
HasMagicNumber(line) ==
    \E a \in 1..Len(line) : \E b \in (a + 1)..Len(line) :
        /\ \A k \in a..b : CharAt(line, k) \in Digit
        /\ (a = 1 \/ CharAt(line, a - 1) \notin WordChar)
        /\ (b = Len(line) \/ CharAt(line, b + 1) \notin WordChar)

_check_best_practices_line(ls, i) ==
    LET line == strip(ls[i])
    IN  (IF HasMagicNumber(line) /\ ~(In("0x", line) \/ In("0b", line))
         THEN << CodeIssue(i, "info", "style", "magic_number") >>
         ELSE <<>>)
        \o
        (IF In("TODO", line) \/ In("FIXME", line)
         THEN << CodeIssue(i, "info", "style", "todo_or_fixme") >>
         ELSE <<>>)

_check_best_practices(ls) == InLineOrder([i \in 1..Len(ls) |-> _check_best_practices_line(ls, i)])

-----------------------------------------------------------------------------
(* The scorer and the summarizer. *)

\* sum(1 for issue in self.issues if issue.severity == severity)
severity_count(issues, severity) ==
    Len(SelectSeq(issues, LAMBDA issue : issue.severity = severity))

\* A variant of total_penalty that credits info findings instead of
\* charging them.
total_penalty_info_credited(issues) ==
    severity_count(issues, "error") * 10
        + severity_count(issues, "warning") * 5
        - severity_count(issues, "info") * 1

\* A variant of total_penalty that charges a warning 3 instead of 5.
total_penalty_warning_3(issues) ==
    severity_count(issues, "error") * 10
        + severity_count(issues, "warning") * 3
        + severity_count(issues, "info") * 1

total_penalty(issues) ==
    LET error_penalty == severity_count(issues, "error") * 10
        warning_penalty == severity_count(issues, "warning") * 5
        info_penalty == severity_count(issues, "info") * 1
    IN  error_penalty + warning_penalty + info_penalty

\* round(num / den, 0) for den > 0: to the nearest integer, a tie to the even
\* one.  On the scores of files of fewer than 80 lines this is the value
\* Python's float arithmetic and round(score, 1) produce, in tenths.
RoundHalfEven(num, den) ==
    LET q == num \div den
        r == num % den
    IN  IF 2 * r > den THEN q + 1
        ELSE IF 2 * r < den THEN q
        ELSE IF q % 2 = 0 THEN q ELSE q + 1

\* A variant of _calculate_score that clamps neither the ratio nor the score.
_calculate_score_unclamped(issues, n) ==
    IF issues = <<>> THEN 1000
    ELSE LET den == Max(n, 1)
         IN  RoundHalfEven(1000 * den - 1000 * total_penalty(issues), den)

\* A variant of _calculate_score whose penalty grows with the file size
\* instead of being divided by it.
_calculate_score_penalty_per_line(issues, n) ==
    IF issues = <<>> THEN 1000
    ELSE LET ratio_num == Min(total_penalty(issues) * Max(n, 1), 100)
         IN  Max(0, RoundHalfEven(1000 * 100 - 1000 * ratio_num, 100))

\* The score in tenths.  penalty_ratio is the fraction ratio_num / den.
_calculate_score(issues, n) ==
    IF issues = <<>> THEN 1000
    ELSE LET den == Max(n, 1)
             ratio_num == Min(total_penalty(issues), den)
         IN  Max(0, RoundHalfEven(1000 * den - 1000 * ratio_num, den))

\* The summary sentence: its fixed text and the count of each tier it lists.
Summary(text, parts) == [text |-> text, parts |-> parts]

\* A variant of _generate_summary that lists the warnings before the errors.
_generate_summary_warnings_first(issues) ==
    IF issues = <<>> THEN Summary("no_issues", <<>>)
    ELSE LET error_count == severity_count(issues, "error")
             warning_count == severity_count(issues, "warning")
             info_count == severity_count(issues, "info")
         IN  Summary("found",
                 (IF warning_count > 0 THEN << <<warning_count, "warning">> >> ELSE <<>>)
                 \o (IF error_count > 0 THEN << <<error_count, "error">> >> ELSE <<>>)
                 \o (IF info_count > 0 THEN << <<info_count, "info">> >> ELSE <<>>))

_generate_summary(issues) ==
    IF issues = <<>> THEN Summary("no_issues", <<>>)
    ELSE LET error_count == severity_count(issues, "error")
             warning_count == severity_count(issues, "warning")
             info_count == severity_count(issues, "info")
         IN  Summary("found",
                 (IF error_count > 0 THEN << <<error_count, "error">> >> ELSE <<>>)
                 \o (IF warning_count > 0 THEN << <<warning_count, "warning">> >> ELSE <<>>)
                 \o (IF info_count > 0 THEN << <<info_count, "info">> >> ELSE <<>>))

-----------------------------------------------------------------------------
(* CIIntegration: the quality gates over a report.  Scores are in tenths,  *)
(* as everywhere.                                                          *)

DefaultMinScore == 700
DefaultMaxErrors == 0
DefaultMaxWarnings == 10

\* The report run_code_review returns when the review failed: {}
NoReport == [present |-> FALSE, average_score |-> 0, files |-> <<>>]

\* A report: summary.average_score, and for each file the severities of its
\* issues.
Report(average_score, files) ==
    [present |-> TRUE, average_score |-> average_score, files |-> files]

\* CIIntegration.__init__, with no call made yet.
CIIntegration(min_score, max_errors, max_warnings) ==
    [min_score |-> min_score, max_errors |-> max_errors,
     max_warnings |-> max_warnings, failed |-> FALSE,
     called |-> "none", report_data |-> NoReport, returned |-> FALSE]

\* The loop of check_quality_gates over files and issues, for one severity.
RECURSIVE total_of(_, _)
total_of(files, severity) ==
    IF files = <<>> THEN 0
    ELSE Len(SelectSeq(Head(files), LAMBDA issue : issue = severity))
             + total_of(Tail(files), severity)

\* self.failed at the end of check_quality_gates on a non-empty report.
gates_failed(failed, report_data, min_score, max_errors) ==
    \/ failed
    \/ report_data.average_score < min_score
    \/ total_of(report_data.files, "error") > max_errors

-----------------------------------------------------------------------------
(* review_file and main.  A list object is an entry of heap; a reference   *)
(* to it is its index, so that two names of one list are told from two     *)
(* equal lists.                                                            *)

Threads == {1, 2}

\* The thread that runs main.
MainThread == 1

Deref(ref) == heap[ref]

\* A variant of new_issues_list that leaves self.issues as it is.
keep_issues_list(h, ref) == [heap |-> h, ref |-> ref]

\* A variant of new_issues_list that empties the list in place
\* (self.issues.clear()).
clear_issues_list(h, ref) == [heap |-> [h EXCEPT ![ref] = <<>>], ref |-> ref]

\* self.issues = []: a new list object, bound to self.issues.
new_issues_list(h, ref) == [heap |-> Append(h, <<>>), ref |-> Len(h) + 1]

\* A variant of append_all that inserts a rule's findings at the front.
prepend_all(issues, found) == found \o issues

\* A variant of append_all that keeps only the findings of the last rule.
replace_all(issues, found) == found

\* The self.issues.append(...) calls of one rule check, in order.
append_all(issues, found) == issues \o found

\* A variant of read_failure that keeps the default score of 100.
read_failure_default_score(path, ref) ==
    ReviewResult(path, 0, ref, 1000, Summary("read_failed", <<>>))

\* The ReviewResult of the except branch; ref is its one-element issues list.
read_failure(path, ref) ==
    ReviewResult(path, 0, ref, 0, Summary("read_failed", <<>>))

\* A variant of append_result that puts the newest result first.
insert_result_first(rs, result) == << result >> \o rs

\* results.append(result)
append_result(rs, result) == Append(rs, result)

\* review_file up to the first rule check: the reset, the read and, when the
\* read fails, the return of the failure result to main's loop.
Begin(t) ==
    /\ pc[t] = "idle"
    /\ next_file <= Len(fs)
    /\ LET path == next_file
           fresh == new_issues_list(heap, self_issues)
       IN  /\ next_file' = next_file + 1
           /\ self_issues' = fresh.ref
           /\ current_file' = path
           /\ IF fs[path].readable
              THEN /\ heap' = fresh.heap
                   /\ lines' = [lines EXCEPT ![t] = split(fs[path].content)]
                   /\ file_path' = [file_path EXCEPT ![t] = path]
                   /\ pc' = [pc EXCEPT ![t] = "code_style"]
                   /\ UNCHANGED results
              ELSE /\ heap' = Append(fresh.heap,
                                << CodeIssue(0, "error", "file", "cannot_read_file") >>)
                   /\ results' = append_result(results,
                                     read_failure(path, Len(fresh.heap) + 1))
                   /\ UNCHANGED <<lines, file_path, pc>>
    /\ UNCHANGED <<fs, total_lines, score, summary, ci>>

\* One rule check of review_file: its findings go to the list self.issues
\* names when the rule runs.
RunCheck(t, here, found, there) ==
    /\ pc[t] = here
    /\ heap' = [heap EXCEPT ![self_issues] = append_all(@, found)]
    /\ pc' = [pc EXCEPT ![t] = there]
    /\ UNCHANGED <<fs, self_issues, current_file, next_file, results,
                   file_path, lines, total_lines, score, summary, ci>>

CheckCodeStyle(t) ==
    RunCheck(t, "code_style", _check_code_style(lines[t]), "code_style_additional")

CheckCodeStyleAdditional(t) ==
    RunCheck(t, "code_style_additional", _check_code_style_additional(lines[t]),
             "thread_safety")

CheckThreadSafety(t) ==
    RunCheck(t, "thread_safety", _check_thread_safety(lines[t]), "logging")

CheckLogging(t) ==
    RunCheck(t, "logging", _check_logging(lines[t]), "exception_handling")

CheckExceptionHandling(t) ==
    RunCheck(t, "exception_handling", _check_exception_handling(lines[t]),
             "performance")

CheckPerformance(t) ==
    RunCheck(t, "performance", _check_performance(lines[t]), "best_practices")

CheckBestPractices(t) ==
    RunCheck(t, "best_practices", _check_best_practices(lines[t]), "assemble")

\* A variant of assemble that takes the score before the rule checks ran.
assemble_score_before_checks(path, ls, ref, issues) ==
    ReviewResult(path, Len(ls), ref, _calculate_score(<<>>, Len(ls)),
                 _generate_summary(issues))

\* The end of review_file: the score and the summary of the findings
\* self.issues names, put into one ReviewResult with the path, the line count
\* and the list itself.
assemble(path, ls, ref, issues) ==
    ReviewResult(path, Len(ls), ref, _calculate_score(issues, Len(ls)),
                 _generate_summary(issues))

\* The return of review_file and main's results.append.
Return(t) ==
    /\ pc[t] = "assemble"
    /\ LET result == assemble(file_path[t], lines[t], self_issues, Deref(self_issues))
       IN  /\ score' = result.score
           /\ total_lines' = result.total_lines
           /\ summary' = result.summary
           /\ results' = append_result(results, result)
    /\ pc' = [pc EXCEPT ![t] = "idle"]
    /\ lines' = [lines EXCEPT ![t] = <<>>]
    /\ file_path' = [file_path EXCEPT ![t] = 0]
    /\ UNCHANGED <<fs, heap, self_issues, current_file, next_file, ci>>

Step(t) ==
    \/ Begin(t)
    \/ CheckCodeStyle(t)
    \/ CheckCodeStyleAdditional(t)
    \/ CheckThreadSafety(t)
    \/ CheckLogging(t)
    \/ CheckExceptionHandling(t)
    \/ CheckPerformance(t)
    \/ CheckBestPractices(t)
    \/ Return(t)

-----------------------------------------------------------------------------
(* The batch of main: one reviewer, the files reviewed one after another.  *)

Unreadable == [readable |-> FALSE, content |-> ""]

Readable(content) == [readable |-> TRUE, content |-> content]

RECURSIVE Repeat(_, _)
Repeat(s, n) ==
    IF n = 0 THEN ""
    ELSE LET half == Repeat(s, n \div 2)
         IN  IF n % 2 = 0 THEN half \o half ELSE half \o half \o s

SampleContents == {
    "import java.util.List;",
    Repeat("x", MaxLineLength + 1) \o "();\nrun(1, 22);",
    "try {\n    run();\n} catch (Exception e) {\n}",
    "    private static SimpleDateFormat sdf;",
    "  System.out.println(1 + 22); // TODO\nreturn;",
    "    for (String s : a) { }\n\nSystem.err.println(a.b.c.d);",
    "" }

FileChoices == {Unreadable} \cup {Readable(c) : c \in SampleContents}

\* The state after JavaCodeReviewer() and before the loop, over files.
InitOver(files) ==
    /\ fs \in files
    /\ heap = << <<>> >>
    /\ self_issues = 1
    /\ current_file = 0
    /\ next_file = 1
    /\ results = <<>>
    /\ pc = [t \in Threads |-> "idle"]
    /\ file_path = [t \in Threads |-> 0]
    /\ lines = [t \in Threads |-> <<>>]
    /\ total_lines = 0
    /\ score = 1000
    /\ summary = Summary("no_issues", <<>>)
    /\ ci = CIIntegration(DefaultMinScore, DefaultMaxErrors, DefaultMaxWarnings)

Batches == UNION {[1..n -> FileChoices] : n \in 1..MaxFiles}

Init == InitOver(Batches)

Next == Step(MainThread)

Spec == Init /\ [][Next]_vars

-----------------------------------------------------------------------------
(* The scorer on its own: findings of any severity are added one at a time *)
(* to a collection and the score of the collection is taken after each,    *)
(* for a fixed total_lines.                                                *)

Severities == {"error", "warning", "info"}

InitScore ==
    /\ fs = <<>>
    /\ heap = << <<>> >>
    /\ self_issues = 1
    /\ current_file = 0
    /\ next_file = 1
    /\ results = <<>>
    /\ pc = [t \in Threads |-> "idle"]
    /\ file_path = [t \in Threads |-> 0]
    /\ lines = [t \in Threads |-> <<>>]
    /\ total_lines \in 0..MaxTotalLines
    /\ score = _calculate_score(<<>>, total_lines)
    /\ summary = _generate_summary(<<>>)
    /\ ci = CIIntegration(DefaultMinScore, DefaultMaxErrors, DefaultMaxWarnings)

\* self.issues.append(CodeIssue(...)) followed by _calculate_score(total_lines)
\* and _generate_summary()
AppendAndScore ==
    /\ Len(Deref(self_issues)) < MaxIssues
    /\ \E severity \in Severities :
          heap' = [heap EXCEPT ![self_issues] =
                       Append(@, CodeIssue(1, severity, "style", "any"))]
    /\ score' = _calculate_score(heap'[self_issues], total_lines)
    /\ summary' = _generate_summary(heap'[self_issues])
    /\ UNCHANGED <<fs, self_issues, current_file, next_file, results, pc,
                   file_path, lines, total_lines, ci>>

\* _calculate_score(total_lines) for the same findings and a file one line
\* longer
GrowAndScore ==
    /\ total_lines < MaxTotalLines
    /\ total_lines' = total_lines + 1
    /\ score' = _calculate_score(Deref(self_issues), total_lines')
    /\ UNCHANGED <<fs, heap, self_issues, current_file, next_file, results, pc,
                   file_path, lines, summary, ci>>

NextScore == AppendAndScore \/ GrowAndScore

SpecScore == InitScore /\ [][NextScore]_vars

-----------------------------------------------------------------------------
(* Two analyses at once on the one reviewer main creates, each thread      *)
(* taking the next file, interleaved between rule checks.                  *)

InitConcurrent == InitOver([1..2 -> FileChoices])

NextConcurrent == \E t \in Threads : Step(t)

SpecConcurrent == InitConcurrent /\ [][NextConcurrent]_vars

-----------------------------------------------------------------------------
(* One file holding a static formatter declaration and a ThreadLocal       *)
(* declaration, some blank lines apart, in either order.                   *)

MaxGap == 21
MaxMargin == 1

RECURSIVE Newlines(_)
Newlines(n) == IF n = 0 THEN "" ELSE "\n" \o Newlines(n - 1)

FormatterDeclaration == "    private static SimpleDateFormat sdf;"

ThreadLocalDeclaration == "    private static ThreadLocal<SimpleDateFormat> tl;"

\* first, gap blank lines, second; with blank lines before and after
Spaced(before, first, gap, second, after) ==
    Newlines(before) \o first \o Newlines(gap + 1) \o second \o Newlines(after)

ThreadSafetyContents ==
    {FormatterDeclaration}
    \cup {Spaced(before, pair[1], gap, pair[2], after) :
            before \in 0..MaxMargin, after \in 0..MaxMargin, gap \in 0..MaxGap,
            pair \in {<<FormatterDeclaration, ThreadLocalDeclaration>>,
                      <<ThreadLocalDeclaration, FormatterDeclaration>>}}

InitThreadSafety == InitOver({<< Readable(c) >> : c \in ThreadSafetyContents})

SpecThreadSafety == InitThreadSafety /\ [][Next]_vars

-----------------------------------------------------------------------------
(* One file per run, its text built from the shapes the rules look for: a  *)
(* catch clause with its body, a brace some lines above a statement, and a *)
(* line around the length limit.                                           *)

MaxBody == 2
MaxLogGap == 10
MaxIndentGap == 10
MaxPad == 2

CatchHeads == {
    "catch (Exception e) {",
    "catch (Exception e) { }",
    "catch (Exception e)\n{",
    "} catch (IOException e) {" }

BodyLines == {
    "",
    "    // ignored",
    "    run();",
    "    log.error(e);",
    "    System.err.println(e);" }

CatchBodies == UNION {[1..n -> BodyLines] : n \in 0..MaxBody}

\* each line of body on a line of its own, from line k of body on
RECURSIVE JoinLines(_, _)
JoinLines(body, k) ==
    IF k > Len(body) THEN "" ELSE "\n" \o body[k] \o JoinLines(body, k + 1)

\* a catch clause, its body, then the closing brace or nothing, then the
\* rest of the file
CatchContents ==
    {head \o JoinLines(body, 1) \o closing \o rest :
        head \in CatchHeads, body \in CatchBodies, closing \in {"", "\n}"},
        rest \in {"", "\nvoid g() {\n    x();\n}"}}

\* a catch line, gap blank lines, then one statement
LoggingContents ==
    {"catch (Exception e) {" \o Newlines(gap + 1) \o statement :
        gap \in 0..MaxLogGap,
        statement \in {"    log.error(e);", "    System.out.println(e);", "    run();"}}

\* a line, gap blank lines, then a line that starts a block or ends a method
IndentationContents ==
    {"try {", "return;"}
    \cup {above \o Newlines(gap + 1) \o below :
            above \in {"void f() {", "// {", "int x;"},
            gap \in 0..MaxIndentGap,
            below \in {"return;", "    return;"}}

\* one line of about MaxLineLength characters, with spaces around it
LineLengthContents ==
    {Repeat(" ", lead) \o Repeat("x", n) \o Repeat(" ", trail) :
        lead \in 0..MaxPad, trail \in 0..MaxPad,
        n \in (MaxLineLength - MaxPad)..(MaxLineLength + 1)}

\* the file ends: nothing at all, one line, and a catch or a static
\* formatter declaration on the first or on the last line
EdgeContents ==
    {"", "x();", "catch (Exception e) {", FormatterDeclaration}
    \cup {first \o "\n" \o last :
            first, last \in {"x();", "catch (Exception e) {", "}",
                             FormatterDeclaration}}

RuleContents ==
    CatchContents \cup LoggingContents \cup IndentationContents
        \cup LineLengthContents \cup EdgeContents

InitRules == InitOver({<< Readable(c) >> : c \in RuleContents})

SpecRules == InitRules /\ [][Next]_vars

-----------------------------------------------------------------------------
(* One file of one line, the line any text of a few characters that a      *)
(* method declaration is made of.                                          *)

MaxNameLen == 4

NameAlphabet == {"a", "B", "1", "_", " ", "("}

\* the characters of word, one after the other, from position k on
RECURSIVE Concat(_, _)
Concat(word, k) ==
    IF k > Len(word) THEN "" ELSE word[k] \o Concat(word, k + 1)

NameContents ==
    {Concat(word, 1) :
        word \in UNION {[1..n -> NameAlphabet] : n \in 1..MaxNameLen}}

InitNaming == InitOver({<< Readable(c) >> : c \in NameContents})

SpecNaming == InitNaming /\ [][Next]_vars

-----------------------------------------------------------------------------
(* AIEnhancedReviewer.review_file_with_ai on one file: the base review,    *)
(* then a second read of the file and the findings of the AI analysis,     *)
(* while the file may become readable or unreadable at any moment.         *)

MaxAIIssues == 2

AIContents == {"", "import java.util.List;",
               "try {\n    run();\n} catch (Exception e) {\n}"}

AIFileChoices == [readable : BOOLEAN, content : AIContents]

\* The findings _ai_code_analysis builds from the answer of the model, or its
\* one finding when the answer cannot be used.
AIFindings ==
    {CodeIssue(line_number, severity, "ai_analysis", "ai_finding") :
        line_number \in {0, 1}, severity \in Severities}

AIIssueLists == UNION {[1..n -> AIFindings] : n \in 0..MaxAIIssues}

InitAI == InitOver({<< file >> : file \in AIFileChoices})

\* The file is made readable or unreadable by someone else, after the base
\* review has started and before review_file_with_ai has returned.
ChangeReadability ==
    /\ next_file > 1
    /\ pc[MainThread] # "returned"
    /\ fs' = [fs EXCEPT ![current_file].readable = ~@]
    /\ UNCHANGED <<heap, self_issues, current_file, next_file, results, pc,
                   file_path, lines, total_lines, score, summary, ci>>

\* review_file_with_ai after `result = self.review_file(file_path)`: the
\* second read, and when it succeeds result.issues.extend(ai_issues) and the
\* score and summary taken again from self.issues.
AIAnalysis(t) ==
    /\ pc[t] = "idle"
    /\ Len(results) = 1
    /\ pc' = [pc EXCEPT ![t] = "returned"]
    /\ IF ~fs[current_file].readable
       THEN UNCHANGED <<heap, results, total_lines, score, summary>>
       ELSE \E ai_issues \in AIIssueLists :
               LET result == results[Len(results)]
                   extended == [heap EXCEPT ![result.issues] = @ \o ai_issues]
                   sc == _calculate_score(extended[self_issues], result.total_lines)
                   sentence == _generate_summary(extended[self_issues])
               IN  /\ heap' = extended
                   /\ results' = [results EXCEPT ![Len(results)] =
                                     [result EXCEPT !.score = sc,
                                                    !.summary = sentence]]
                   /\ total_lines' = result.total_lines
                   /\ score' = sc
                   /\ summary' = sentence
    /\ UNCHANGED <<fs, self_issues, current_file, next_file, file_path, lines, ci>>

NextAI == Step(MainThread) \/ ChangeReadability \/ AIAnalysis(MainThread)

SpecAI == InitAI /\ [][NextAI]_vars

-----------------------------------------------------------------------------
(* One CIIntegration object, as in watch mode: run_code_review and         *)
(* check_quality_gates called on it again and again.                       *)

MaxReportFiles == 2
MaxFileIssues == 1

ReportFiles ==
    UNION {[1..n -> UNION {[1..m -> Severities] : m \in 0..MaxFileIssues}] :
              n \in 0..MaxReportFiles}

Reports ==
    {Report(average_score, files) :
        average_score \in {DefaultMinScore - 1, DefaultMinScore, 1000},
        files \in ReportFiles}

InitCI ==
    /\ fs = <<>>
    /\ heap = << <<>> >>
    /\ self_issues = 1
    /\ current_file = 0
    /\ next_file = 1
    /\ results = <<>>
    /\ pc = [t \in Threads |-> "idle"]
    /\ file_path = [t \in Threads |-> 0]
    /\ lines = [t \in Threads |-> <<>>]
    /\ total_lines = 0
    /\ score = 1000
    /\ summary = Summary("no_issues", <<>>)
    /\ \E max_errors \in {DefaultMaxErrors, 1}, max_warnings \in {0, DefaultMaxWarnings} :
          ci = CIIntegration(DefaultMinScore, max_errors, max_warnings)

\* run_code_review: the report of the review, or {} with self.failed set
\* when the review failed or left no report.
RunCodeReview ==
    /\ \E report_data \in Reports \cup {NoReport} :
          ci' = [ci EXCEPT !.called = "run_code_review",
                           !.report_data = report_data,
                           !.returned = FALSE,
                           !.failed = @ \/ ~report_data.present]
    /\ UNCHANGED <<fs, heap, self_issues, current_file, next_file, results, pc,
                   file_path, lines, total_lines, score, summary>>

\* check_quality_gates(report_data)
CheckQualityGates ==
    /\ \E report_data \in Reports \cup {NoReport} :
          IF ~report_data.present
          THEN ci' = [ci EXCEPT !.called = "check_quality_gates",
                                !.report_data = report_data,
                                !.returned = FALSE]
          ELSE LET failed == gates_failed(ci.failed, report_data,
                                          ci.min_score, ci.max_errors)
               IN  ci' = [ci EXCEPT !.called = "check_quality_gates",
                                    !.report_data = report_data,
                                    !.failed = failed,
                                    !.returned = ~failed]
    /\ UNCHANGED <<fs, heap, self_issues, current_file, next_file, results, pc,
                   file_path, lines, total_lines, score, summary>>

NextCI == RunCodeReview \/ CheckQualityGates

SpecCI == InitCI /\ [][NextCI]_vars

-----------------------------------------------------------------------------
(* What review_file returns for a file analysed on its own, as a value.    *)

\* The seven rule checks of review_file, run in order on an empty collection.
review_findings(ls) ==
    _check_code_style(ls) \o _check_code_style_additional(ls)
        \o _check_thread_safety(ls) \o _check_logging(ls)
        \o _check_exception_handling(ls) \o _check_performance(ls)
        \o _check_best_practices(ls)

review_alone(file) ==
    IF file.readable
    THEN LET ls == split(file.content)
             found == review_findings(ls)
         IN  [total_lines |-> Len(ls), issues |-> found,
              score |-> _calculate_score(found, Len(ls)),
              summary |-> _generate_summary(found)]
    ELSE [total_lines |-> 0,
          issues |-> << CodeIssue(0, "error", "file", "cannot_read_file") >>,
          score |-> 0, summary |-> Summary("read_failed", <<>>)]

\* The k-th result is what its file yields when analysed on its own.
SameAsAlone(k) ==
    LET result == results[k]
        alone == review_alone(fs[result.file_path])
    IN  /\ result.total_lines = alone.total_lines
        /\ Deref(result.issues) = alone.issues
        /\ result.score = alone.score
        /\ result.summary = alone.summary

\* main has left its loop.
Done == next_file > Len(fs) /\ \A t \in Threads : pc[t] = "idle"

-----------------------------------------------------------------------------
(* The claims. *)

\* The number of findings of a severity, counted by position.
NumberOf(issues, severity) ==
    Cardinality({i \in DOMAIN issues : issues[i].severity = severity})

\* P = 10 * errors + 5 * warnings + infos
Penalty(issues) ==
    10 * NumberOf(issues, "error") + 5 * NumberOf(issues, "warning")
        + NumberOf(issues, "info")

Abs(x) == IF x < 0 THEN -x ELSE x

\* C1: for every findings list and every total_lines >= 0 the score lies in
\* [0, 100] (0..1000 tenths), and the score of no findings is exactly 100.0.
C1_ScoreInRange ==
    /\ score \in 0..1000
    /\ Deref(self_issues) = <<>> => score = 1000

\* C1's case: a penalty above the line count, the score held at 0.
C1_Witness ==
    /\ Deref(self_issues) # <<>>
    /\ Penalty(Deref(self_issues)) > Max(total_lines, 1)
    /\ score = 0

\* C2: for a non-empty findings list the score is
\* max(0, 100 - min(P / max(total_lines, 1), 1.0) * 100) rounded to one
\* decimal: the number of tenths nearest to the exact value, which is
\* 1000 * (N - min(P, N)) / N tenths for N = max(total_lines, 1).
C2_ScoreFormula ==
    Deref(self_issues) # <<>> =>
        LET N == Max(total_lines, 1)
            P == Penalty(Deref(self_issues))
        IN  /\ score >= 0
            /\ 2 * Abs(score * N - 1000 * (N - Min(P, N))) <= N

\* C2's case: findings of all three severities, a score strictly between 0
\* and 100 that needed rounding.
C2_Witness ==
    /\ \A severity \in Severities : NumberOf(Deref(self_issues), severity) > 0
    /\ 0 < score /\ score < 1000
    /\ (1000 * Penalty(Deref(self_issues))) % Max(total_lines, 1) # 0

\* C3: with total_lines fixed, one more finding of any severity never
\* increases the score.
C3_ScoreMonotone ==
    [][(/\ total_lines' = total_lines
        /\ \E severity \in Severities :
              Deref(self_issues)' =
                  Append(Deref(self_issues), CodeIssue(1, severity, "style", "any")))
       => score' <= score]_vars

\* C3's case: findings were added and the score has come down, without
\* reaching 0.
C3_Witness ==
    /\ Len(Deref(self_issues)) >= 2
    /\ 0 < score /\ score < 1000

\* C4: an unreadable file yields a ReviewResult with total_lines 0, exactly
\* one finding (error, line 0, category "file"), score 0 and the failure
\* summary, and no rule check runs on it.
C4_ReadFailureResult ==
    /\ \A k \in 1..Len(results) :
          ~fs[results[k].file_path].readable =>
              /\ results[k].total_lines = 0
              /\ Len(Deref(results[k].issues)) = 1
              /\ Deref(results[k].issues)[1].severity = "error"
              /\ Deref(results[k].issues)[1].line_number = 0
              /\ Deref(results[k].issues)[1].category = "file"
              /\ results[k].score = 0
              /\ results[k].summary = Summary("read_failed", <<>>)
    /\ \A t \in Threads : pc[t] # "idle" => fs[file_path[t]].readable
    /\ (current_file # 0 /\ ~fs[current_file].readable) => Deref(self_issues) = <<>>

\* C4's case: the result of an unreadable file has been returned.
C4_Witness ==
    \E k \in 1..Len(results) : ~fs[results[k].file_path].readable

\* review_file or main's loop has a step to take: the guard of Begin, of a
\* rule check or of Return holds for the thread of main.
CanStep ==
    \/ pc[MainThread] = "idle" /\ next_file <= Len(fs)
    \/ pc[MainThread] \in {"code_style", "code_style_additional", "thread_safety",
                           "logging", "exception_handling", "performance",
                           "best_practices", "assemble"}

\* C5: a batch over N files, any of them unreadable, completes with exactly N
\* results, the k-th the result of the k-th file: the loop is never stuck
\* before its end, it ends with N results, and the results so far are those
\* of the first files in input order, a failure result exactly for an
\* unreadable file.
C5_BatchInOrder ==
    /\ ~Done => CanStep
    /\ Done => Len(results) = Len(fs)
    /\ Len(results) <= Len(fs)
    /\ \A k \in 1..Len(results) :
          /\ results[k].file_path = k
          /\ (results[k].summary.text = "read_failed") = ~fs[k].readable

\* C5's case: a finished batch of an unreadable file followed by a readable one.
C5_Witness ==
    /\ Done
    /\ Len(fs) >= 2
    /\ ~fs[1].readable
    /\ fs[2].readable

\* C6: the result for a file content is the same whatever the reviewer
\* analysed before: every result is the one its file yields on its own.
C6_HistoryIndependent ==
    \A k \in 1..Len(results) : SameAsAlone(k)

\* C6's case: a file without findings reviewed after a file with findings,
\* or the same content reviewed twice.
C6_Witness ==
    /\ Len(results) >= 2
    /\ Deref(results[1].issues) # <<>>
    /\ fs[2].readable
    /\ \/ Deref(results[2].issues) = <<>>
       \/ fs[2] = fs[1]

\* C7: when two analyses run at once on the reviewer main creates, each
\* result holds the findings, score and summary its file yields on its own.
C7_ConcurrentIsolation ==
    \A k \in 1..Len(results) :
        LET alone == review_alone(fs[results[k].file_path])
        IN  /\ Deref(results[k].issues) = alone.issues
            /\ results[k].score = alone.score
            /\ results[k].summary = alone.summary

\* C8: a returned ReviewResult never changes: a later step leaves its record
\* and the list its issues field names as they were.
C8_ResultImmutable ==
    [][\A k \in 1..Len(results) :
          /\ k <= Len(results')
          /\ results'[k] = results[k]
          /\ heap'[results[k].issues] = heap[results[k].issues]]_vars

\* C8's case: a result with findings was returned and a later review_file
\* call has collected findings of its own.
C8_Witness ==
    /\ Len(results) >= 1
    /\ Deref(results[1].issues) # <<>>
    /\ pc[MainThread] = "assemble"
    /\ Deref(self_issues) # <<>>

\* The rule a finding comes from, in the order indentation, line-length,
\* naming, thread-safety, logging, exception-handling, performance,
\* best-practices.
RuleRank(message) ==
    CASE message \in {"top_level_indented", "missing_indentation"} -> 1
      [] message = "line_too_long" -> 2
      [] message = "method_name_not_camel_case" -> 3
      [] message \in {"threadlocal_wraps_formatter", "synchronized_used",
                      "static_formatter_not_thread_safe"} -> 4
      [] message \in {"system_out_println", "system_err_println",
                      "missing_log_in_catch"} -> 5
      [] message \in {"empty_catch_block", "throws_generic_exception",
                      "null_literal_comparison", "chained_call_null_risk"} -> 6
      [] message \in {"string_concatenation", "string_operation_in_loop"} -> 7
      [] message \in {"magic_number", "todo_or_fixme"} -> 8

\* C9: in the result of a readable file every finding of an earlier rule
\* precedes every finding of a later rule.
C9_GroupedByRule ==
    \A k \in 1..Len(results) :
        fs[results[k].file_path].readable =>
            LET issues == Deref(results[k].issues)
            IN  \A a, b \in 1..Len(issues) :
                    a < b => RuleRank(issues[a].message) <= RuleRank(issues[b].message)

\* C9's case: findings of three rules or more, one of an earlier rule standing
\* before one of a later rule that is on a line further up.
C9_Witness ==
    \E k \in 1..Len(results) :
        LET issues == Deref(results[k].issues)
        IN  /\ fs[results[k].file_path].readable
            /\ Cardinality({RuleRank(issues[a].message) : a \in 1..Len(issues)}) >= 3
            /\ \E a, b \in 1..Len(issues) :
                  /\ a < b
                  /\ RuleRank(issues[a].message) < RuleRank(issues[b].message)
                  /\ issues[a].line_number > issues[b].line_number

\* A `private static` declaration of the formatter type without ThreadLocal
\* on the line.
IsUnguardedFormatter(text) ==
    /\ MatchesPrivateStatic(strip(text))
    /\ In("SimpleDateFormat", text)
    /\ ~In("ThreadLocal", text)

\* C10: the thread-safety rule reports a static formatter declaration on line
\* L, once, exactly when no line from L-20 to L+20 holds a ThreadLocal-wrapped
\* declaration of the type.
C10_ThreadLocalWindow ==
    \A k \in 1..Len(results) :
        fs[results[k].file_path].readable =>
            LET ls == split(fs[results[k].file_path].content)
                issues == Deref(results[k].issues)
            IN  \A L \in 1..Len(ls) :
                    IsUnguardedFormatter(ls[L]) =>
                        LET reports == {a \in 1..Len(issues) :
                                           /\ issues[a].line_number = L
                                           /\ issues[a].severity = "error"
                                           /\ issues[a].category = "thread_safety"}
                            guarded == \E M \in Max(1, L - 20)..Min(Len(ls), L + 20) :
                                           In("ThreadLocal<SimpleDateFormat>", ls[M])
                        IN  /\ Cardinality(reports) <= 1
                            /\ (Cardinality(reports) = 1) = ~guarded

\* The positions of the thread-safety findings of a severity at a line.
ThreadSafetyFindings(issues, severity, line_number) ==
    {a \in 1..Len(issues) : /\ issues[a].line_number = line_number
                            /\ issues[a].severity = severity
                            /\ issues[a].category = "thread_safety"}

\* A static formatter declaration on line L with a ThreadLocal-wrapped
\* declaration three lines above it.
GuardedThreeAbove(ls, L) ==
    /\ L - 3 >= 1
    /\ IsUnguardedFormatter(ls[L])
    /\ In("ThreadLocal<SimpleDateFormat>", ls[L - 3])

\* C11: with a ThreadLocal-wrapped declaration 3 lines above a static
\* formatter declaration, the thread-safety rule reports no error for the
\* declaration and exactly one info finding, at the ThreadLocal line.
C11_GuardThreeAbove ==
    \A k \in 1..Len(results) :
        fs[results[k].file_path].readable =>
            LET ls == split(fs[results[k].file_path].content)
                issues == Deref(results[k].issues)
            IN  \A L \in 1..Len(ls) :
                    GuardedThreeAbove(ls, L) =>
                        /\ ThreadSafetyFindings(issues, "error", L) = {}
                        /\ Cardinality(ThreadSafetyFindings(issues, "info", L - 3)) = 1
                        /\ \A a \in 1..Len(issues) :
                              (issues[a].category = "thread_safety"
                                   /\ issues[a].severity = "info")
                                  => issues[a].line_number = L - 3

\* C11's case: the result of such a file has been returned.
C11_Witness ==
    \E k \in 1..Len(results) :
        /\ fs[results[k].file_path].readable
        /\ \E L \in 1..Len(split(fs[results[k].file_path].content)) :
              GuardedThreeAbove(split(fs[results[k].file_path].content), L)

-----------------------------------------------------------------------------
(* The rules on catch clauses, line length and indentation.                *)

\* The positions of the findings with a message at a line.
FindingsAt(issues, message, line_number) ==
    {a \in 1..Len(issues) : /\ issues[a].line_number = line_number
                            /\ issues[a].message = message}

IsCatchLine(text) == In("catch", text) /\ In("Exception", text)

\* The position of the first c in s, or 0.
FirstIndex(s, c) ==
    LET at == {i \in 1..Len(s) : CharAt(s, i) = c}
    IN  IF at = {} THEN 0 ELSE CHOOSE i \in at : \A j \in at : i <= j

After(s, i) == SubSeq(s, i + 1, Len(s))

IsBlankOrComment(text) ==
    LET t == strip(text)
    IN  t = "" \/ startswith(t, "//") \/ startswith(t, "*") \/ startswith(t, "/*")

HasBrace(text) == In("{", text) \/ In("}", text)

\* The body of the catch clause of line L opens on line O: with the one
\* opening brace of the catch line, which ends that line, or with a brace
\* alone on the next line.
OpensAt(ls, L, O) ==
    LET open == FirstIndex(ls[L], "{")
    IN  \/ /\ O = L
           /\ open > 0
           /\ In("catch", SubSeq(ls[L], 1, open - 1))
           /\ strip(After(ls[L], open)) = ""
        \/ /\ O = L + 1
           /\ O <= Len(ls)
           /\ open = 0
           /\ ~In("}", After(ls[L], FirstIndex(ls[L], "c")))
           /\ strip(ls[O]) = "{"

\* The catch clause of line L is `catch (...) { }` on the one line.
OneLineEmptyBody(text) ==
    LET open == FirstIndex(text, "{")
        close == open + FirstIndex(After(text, open), "}")
    IN  /\ open > 0
        /\ close > open
        /\ In("catch", SubSeq(text, 1, open - 1))
        /\ strip(SubSeq(text, open + 1, close - 1)) = ""

\* The body opened on line O closes on line M, and holds only blank and
\* comment-only lines.
EmptyBodyClosedAt(ls, O, M) ==
    /\ M > O
    /\ \A j \in (O + 1)..(M - 1) : IsBlankOrComment(ls[j]) /\ ~HasBrace(ls[j])
    /\ startswith(strip(ls[M]), "}")

HasEmptyCatchBody(ls, L) ==
    /\ IsCatchLine(ls[L])
    /\ \/ OneLineEmptyBody(ls[L])
       \/ \E O \in L..Len(ls), M \in L..Len(ls) :
              OpensAt(ls, L, O) /\ EmptyBodyClosedAt(ls, O, M)

\* C12: a catch line whose brace-delimited body holds only blank and
\* comment-only lines gets exactly one empty-catch error (category
\* "exception") at that line, whatever follows the block.
C12_EmptyCatchReported ==
    \A k \in 1..Len(results) :
        fs[results[k].file_path].readable =>
            LET ls == split(fs[results[k].file_path].content)
                issues == Deref(results[k].issues)
            IN  \A L \in 1..Len(ls) :
                    HasEmptyCatchBody(ls, L) =>
                        /\ Cardinality(FindingsAt(issues, "empty_catch_block", L)) = 1
                        /\ \A a \in FindingsAt(issues, "empty_catch_block", L) :
                              /\ issues[a].severity = "error"
                              /\ issues[a].category = "exception"

\* The catch line L carries one opening brace, after `catch` and with no
\* closing brace after it, line M holds the one closing brace, and no line
\* between them holds a brace.
SingleBraces(ls, L, M) ==
    LET open == FirstIndex(ls[L], "{")
    IN  /\ IsCatchLine(ls[L])
        /\ count(ls[L], "{") = 1
        /\ In("catch", SubSeq(ls[L], 1, open - 1))
        /\ strip(After(ls[L], open)) = ""
        /\ M > L
        /\ \A j \in (L + 1)..(M - 1) : ~HasBrace(ls[j])
        /\ count(ls[M], "}") = 1
        /\ ~In("{", ls[M])
        /\ startswith(strip(ls[M]), "}")

\* The trimmed lines from line a to line b that are neither blank nor
\* comment-only.
RECURSIVE StatementsBetween(_, _, _)
StatementsBetween(ls, a, b) ==
    IF a > b THEN <<>>
    ELSE (IF IsBlankOrComment(ls[a]) THEN <<>> ELSE << strip(ls[a]) >>)
             \o StatementsBetween(ls, a + 1, b)

\* C13: with one opening brace on the catch line and the one closing brace
\* on a later line, the content the scan collects is the trimmed non-comment
\* lines between the two, and a body with a statement is not reported as an
\* empty catch block.
C13_BlockContentBetweenBraces ==
    \A k \in 1..Len(results) :
        fs[results[k].file_path].readable =>
            LET ls == split(fs[results[k].file_path].content)
                issues == Deref(results[k].issues)
            IN  \A L \in 1..Len(ls), M \in 1..Len(ls) :
                    SingleBraces(ls, L, M) =>
                        LET body == StatementsBetween(ls, L + 1, M - 1)
                        IN  /\ non_comment_content(catch_content_of(ls, L)) = body
                            /\ body # <<>> =>
                                   FindingsAt(issues, "empty_catch_block", L) = {}

\* The body of the catch clause of line L opens on line O and no line after
\* O holds a closing brace.
Unterminated(ls, L, O) ==
    /\ IsCatchLine(ls[L])
    /\ OpensAt(ls, L, O)
    /\ \A j \in (O + 1)..Len(ls) : ~In("}", ls[j])

\* C14: a catch body whose opening brace, on the catch line or on the next,
\* is never closed is treated as empty: the file is reviewed to the end and
\* the catch line gets the empty-catch error.
C14_UnterminatedIsEmpty ==
    \A k \in 1..Len(results) :
        fs[results[k].file_path].readable =>
            LET ls == split(fs[results[k].file_path].content)
                issues == Deref(results[k].issues)
            IN  \A L \in 1..Len(ls), O \in 1..Len(ls) :
                    Unterminated(ls, L, O) =>
                        Cardinality(FindingsAt(issues, "empty_catch_block", L)) = 1

\* C15: a line of the file as loaded gets exactly one line-length finding
\* (info, "style") when it is longer than 120 characters and none otherwise.
C15_LineLengthOfLoadedLine ==
    \A k \in 1..Len(results) :
        fs[results[k].file_path].readable =>
            LET ls == split(fs[results[k].file_path].content)
                issues == Deref(results[k].issues)
            IN  \A L \in 1..Len(ls) :
                    /\ Cardinality(FindingsAt(issues, "line_too_long", L))
                           = IF Len(ls[L]) > 120 THEN 1 ELSE 0
                    /\ \A a \in FindingsAt(issues, "line_too_long", L) :
                          /\ issues[a].severity = "info"
                          /\ issues[a].category = "style"

\* A logging-framework call or a console-output statement of either kind.
HasLogOrConsoleOutput(text) ==
    \/ In("log.", text) \/ In("Logger", text)
    \/ In("System.out", text) \/ In("System.err", text)

\* C16: a catch line gets the missing-log warning (category "logging")
\* exactly when none of the 10 lines after it holds a logging call or a
\* console-output statement, to standard output or to error output.
C16_MissingLogInCatch ==
    \A k \in 1..Len(results) :
        fs[results[k].file_path].readable =>
            LET ls == split(fs[results[k].file_path].content)
                issues == Deref(results[k].issues)
            IN  \A L \in 1..Len(ls) :
                    IsCatchLine(ls[L]) =>
                        LET logged == \E j \in (L + 1)..Min(Len(ls), L + 10) :
                                          HasLogOrConsoleOutput(ls[j])
                        IN  /\ Cardinality(FindingsAt(issues, "missing_log_in_catch", L))
                                   = IF logged THEN 0 ELSE 1
                            /\ \A a \in FindingsAt(issues, "missing_log_in_catch", L) :
                                  /\ issues[a].severity = "warning"
                                  /\ issues[a].category = "logging"

\* A line with no leading whitespace that starts with a block-introducing
\* keyword or a brace.
IsUnindentedBlockLine(text) ==
    /\ text # ""
    /\ CharAt(text, 1) \notin {" ", "\t"}
    /\ IsBlockLine(strip(text))

\* C17: an unindented block line gets the missing-indentation warning
\* (category "style") exactly when one of the up to 10 lines before it, the
\* line itself left out, is a non-comment line with an opening brace.
C17_IndentationWindow ==
    \A k \in 1..Len(results) :
        fs[results[k].file_path].readable =>
            LET ls == split(fs[results[k].file_path].content)
                issues == Deref(results[k].issues)
            IN  \A L \in 1..Len(ls) :
                    IsUnindentedBlockLine(ls[L]) =>
                        LET nested == \E j \in Max(1, L - 10)..(L - 1) :
                                          /\ In("{", ls[j])
                                          /\ ~IsBlankOrComment(ls[j])
                        IN  /\ Cardinality(FindingsAt(issues, "missing_indentation", L))
                                   = IF nested THEN 1 ELSE 0
                            /\ \A a \in FindingsAt(issues, "missing_indentation", L) :
                                  /\ issues[a].severity = "warning"
                                  /\ issues[a].category = "style"

-----------------------------------------------------------------------------
(* The summary and the result of a readable file.                          *)

\* The place of a severity tier in the order error, warning, info.
TierRank(severity) ==
    CASE severity = "error" -> 1
      [] severity = "warning" -> 2
      [] severity = "info" -> 3
      [] OTHER -> 4

\* The sum of the counts a summary lists.
RECURSIVE ListedTotal(_)
ListedTotal(parts) ==
    IF parts = <<>> THEN 0 ELSE Head(parts)[1] + ListedTotal(Tail(parts))

\* sentence is the summary the claim describes for the findings issues.
DescribesFindings(sentence, issues) ==
    /\ (sentence.text = "no_issues") = (issues = <<>>)
    /\ issues # <<>> =>
          /\ sentence.text = "found"
          /\ {sentence.parts[a][2] : a \in 1..Len(sentence.parts)}
                 = {severity \in Severities : NumberOf(issues, severity) >= 1}
          /\ \A a \in 1..Len(sentence.parts) :
                sentence.parts[a][1] = NumberOf(issues, sentence.parts[a][2])
          /\ \A a, b \in 1..Len(sentence.parts) :
                a < b => TierRank(sentence.parts[a][2]) < TierRank(sentence.parts[b][2])
          /\ ListedTotal(sentence.parts) = Len(issues)

\* C18: the summary is the "no issues" sentence exactly when there are no
\* findings; otherwise it lists the count of each severity tier that occurs,
\* in the order error, warning, info, leaves out the tiers that do not occur,
\* and the listed counts add up to the number of findings.
C18_SummaryListsTiers == DescribesFindings(summary, Deref(self_issues))

\* C18's case: a summary of three findings or more in two tiers, the third
\* tier left out.
C18_Witness ==
    /\ Len(Deref(self_issues)) >= 3
    /\ Len(summary.parts) = 2
    /\ summary = _generate_summary(Deref(self_issues))

\* C19: the result of a readable file holds the number of lines of the file,
\* the findings of the seven rules in the order they were emitted, the score
\* of exactly those findings and that line count, and the summary of exactly
\* those findings.
C19_ResultAssembled ==
    \A k \in 1..Len(results) :
        fs[results[k].file_path].readable =>
            LET ls == split(fs[results[k].file_path].content)
                issues == Deref(results[k].issues)
            IN  /\ results[k].total_lines = Len(ls)
                /\ issues = review_findings(ls)
                /\ results[k].score = _calculate_score(issues, results[k].total_lines)
                /\ results[k].summary = _generate_summary(issues)

\* C19's case: the result of a readable file with findings of two rules or
\* more has been returned.
C19_Witness ==
    \E k \in 1..Len(results) :
        /\ fs[results[k].file_path].readable
        /\ Cardinality({RuleRank(Deref(results[k].issues)[a].message) :
                           a \in 1..Len(Deref(results[k].issues))}) >= 2
        /\ results[k].score < 1000

-----------------------------------------------------------------------------
(* What a rule check leaves alone, and the shape of the findings.          *)

\* The positions of review_file at which a rule check is about to run.
RulePositions ==
    {"code_style", "code_style_additional", "thread_safety", "logging",
     "exception_handling", "performance", "best_practices"}

IsPrefix(before, after) ==
    /\ Len(before) <= Len(after)
    /\ SubSeq(after, 1, Len(before)) = before

\* C21: a rule check leaves the line sequence as it is and only appends to
\* the findings collection: the collection before the rule is a prefix of the
\* collection after it, and no other list of findings changes.
C21_RulesAppendOnly ==
    [][pc[MainThread] \in RulePositions =>
           /\ lines' = lines
           /\ self_issues' = self_issues
           /\ Len(heap') = Len(heap)
           /\ IsPrefix(heap[self_issues], heap'[self_issues])
           /\ \A ref \in 1..Len(heap) :
                 ref # self_issues => heap'[ref] = heap[ref]]_vars

\* C21's case: a later rule has appended to a collection that held the
\* findings of an earlier rule, and review_file has not returned yet.
C21_Witness ==
    /\ pc[MainThread] \in RulePositions \cup {"assemble"}
    /\ Cardinality({RuleRank(Deref(self_issues)[a].message) :
                       a \in 1..Len(Deref(self_issues))}) >= 2

\* C22: every finding of a returned result is well formed: its severity is
\* error, warning or info, and its line number is 0 for the read-failure
\* finding alone and otherwise a line of the file, from 1 to total_lines.
C22_FindingsWellFormed ==
    \A k \in 1..Len(results) :
        LET issues == Deref(results[k].issues)
        IN  \A a \in 1..Len(issues) :
                /\ issues[a].severity \in Severities
                /\ IF issues[a].line_number = 0
                   THEN /\ ~fs[results[k].file_path].readable
                        /\ issues[a].category = "file"
                        /\ issues[a].message = "cannot_read_file"
                   ELSE issues[a].line_number \in 1..results[k].total_lines

\* C22's case: a read-failure result, and the result of a readable file of
\* two lines or more with a finding on its first and on its last line.
C22_Witness ==
    /\ \E k \in 1..Len(results) :
          /\ ~fs[results[k].file_path].readable
          /\ Len(Deref(results[k].issues)) = 1
    /\ \E k \in 1..Len(results) :
          LET issues == Deref(results[k].issues)
          IN  /\ fs[results[k].file_path].readable
              /\ results[k].total_lines >= 2
              /\ \E a, b \in 1..Len(issues) :
                    /\ issues[a].line_number = 1
                    /\ issues[b].line_number = results[k].total_lines

\* C23: with the findings fixed, the score never goes down when the file
\* is one line longer, and the score is 0 whenever the penalty
\* 10 * errors + 5 * warnings + infos is at least max(total_lines, 1).
C23_ScoreGrowsWithLines ==
    /\ [](Penalty(Deref(self_issues)) >= Max(total_lines, 1) => score = 0)
    /\ [][(/\ Deref(self_issues)' = Deref(self_issues)
           /\ total_lines' = total_lines + 1)
          => score' >= score]_vars

\* C23's case: the score of some findings has gone up with one more line.
C23_Witness ==
    /\ Deref(self_issues) # <<>>
    /\ total_lines >= 2
    /\ score < 1000
    /\ score > _calculate_score(Deref(self_issues), total_lines - 1)

-----------------------------------------------------------------------------
(* The indices of `lines` the rules read besides the line they are on.     *)

\* _check_code_style reaches the call of _needs_indentation on line i.
CallsNeedsIndentation(ls, i) ==
    LET line == strip(ls[i])
    IN  /\ ~IsBlankOrComment(ls[i])
        /\ ~IsTopLevelDeclaration(line)
        /\ IsUnindentedBlockLine(ls[i])
        /\ ~startswith(line, "public") /\ ~startswith(line, "private")
        /\ ~startswith(line, "protected") /\ ~startswith(line, "static")

\* The indices into `lines` (from 0) the loops of the rule at a position of
\* review_file run over, for the lines that make the rule enter the loop,
\* and lines[i-2] of the blank-line test.
IndicesRead(ls, position) ==
    CASE position = "code_style" ->
            UNION {_needs_indentation_range(i) :
                      i \in {n \in 1..Len(ls) : CallsNeedsIndentation(ls, n)}}
      [] position = "code_style_additional" ->
            {i - 2 : i \in 2..Len(ls)}
      [] position = "thread_safety" ->
            UNION {class_has_threadlocal_range(ls, i) :
                      i \in {n \in 1..Len(ls) : IsUnguardedFormatter(strip(ls[n]))}}
      [] position = "logging" ->
            UNION {has_log_in_catch_range(ls, i) :
                      i \in {n \in 1..Len(ls) : IsCatchLine(ls[n])}}
      [] position = "exception_handling" ->
            UNION {catch_block_range(ls, i) :
                      i \in {n \in 1..Len(ls) : IsCatchLine(ls[n])}}
      [] OTHER -> {}

\* C24: for the line sequence of a readable file, whatever its ends cut off,
\* every index a rule reads lies in 0 .. len(lines)-1, so no rule raises and
\* review_file goes on to return.
C24_IndicesInRange ==
    \A t \in Threads :
        pc[t] # "idle" =>
            /\ Len(lines[t]) >= 1
            /\ \A position \in RulePositions :
                  IndicesRead(lines[t], position) \subseteq 0..(Len(lines[t]) - 1)

\* C24's case: the rules have run on a file whose last line is a catch
\* line, the windows of the logging and the exception rule cut off by the end
\* of the file.
C24_Witness ==
    /\ pc[MainThread] = "assemble"
    /\ IsCatchLine(lines[MainThread][Len(lines[MainThread])])
    /\ IndicesRead(lines[MainThread], "logging") = {}
    /\ Len(lines[MainThread]) >= 2
    /\ IndicesRead(lines[MainThread], "code_style") # {}

-----------------------------------------------------------------------------
(* The naming check.                                                       *)

\* C25: the naming check never emits: the identifier taken from a line of
\* the method-declaration shape always passes the camelCase test, so no
\* collection ever holds a "method name not camelCase" finding and
\* _check_code_style_additional yields line-length findings only.
C25_NamingFindingUnreachable ==
    /\ \A ref \in 1..Len(heap) : \A a \in 1..Len(heap[ref]) :
          heap[ref][a].message # "method_name_not_camel_case"
    /\ \A t \in Threads : \A i \in 1..Len(lines[t]) :
          /\ MatchesMethodShape(strip(lines[t][i]))
                 => IsCamelCase(MethodName(strip(lines[t][i])))
          /\ \A a \in 1..Len(_check_code_style_additional_line(lines[t], i)) :
                _check_code_style_additional_line(lines[t], i)[a].message
                    = "line_too_long"

\* C25's case: the rules have run on a line of the method-declaration shape
\* whose identifier holds an upper-case letter or a digit.
C25_Witness ==
    /\ pc[MainThread] = "assemble"
    /\ \E i \in 1..Len(lines[MainThread]) :
          LET line == strip(lines[MainThread][i])
          IN  /\ MatchesMethodShape(line)
              /\ \E k \in 2..Len(MethodName(line)) :
                    CharAt(MethodName(line), k) \in Upper \cup Digit

-----------------------------------------------------------------------------
(* The result of review_file_with_ai.                                      *)

\* C26: the result review_file_with_ai returns has the score of its own
\* issues list and its total_lines, and the summary of its own issues list,
\* also when the file became readable or unreadable between the two reads.
C26_AIResultConsistent ==
    pc[MainThread] = "returned" =>
        LET result == results[Len(results)]
        IN  /\ result.score = _calculate_score(Deref(result.issues), result.total_lines)
            /\ result.summary = _generate_summary(Deref(result.issues))

-----------------------------------------------------------------------------
(* The quality gates.                                                      *)

\* The number of issues of a severity in the files of a report.
ReportCount(report_data, severity) ==
    Cardinality({<<f, a>> \in (1..Len(report_data.files)) \X (1..MaxFileIssues) :
                    /\ a <= Len(report_data.files[f])
                    /\ report_data.files[f][a] = severity})

\* C27: whatever was called on the object before, check_quality_gates returns
\* True exactly when the report it is given is not empty, its average score is
\* at least min_score and it holds at most max_errors errors; the warnings do
\* not count.
C27_GateDependsOnReportOnly ==
    ci.called = "check_quality_gates" =>
        ci.returned = (/\ ci.report_data.present
                       /\ ci.report_data.average_score >= ci.min_score
                       /\ ReportCount(ci.report_data, "error") <= ci.max_errors)

====
